---- MODULE Spec2Model ----
(***************************************************************************)
(* Model of ptviewer.py: the CSV watcher that decodes motor positions from *)
(* CAN frames logged as text rows (CSVHandler.on_modified), the shared     *)
(* store it fills (data_dict, times) and the display callback that reads   *)
(* the store (animate).                                                    *)
(*                                                                         *)
(* Text is modelled as a sequence of one-character strings, a row as a     *)
(* sequence of such fields.  Python's 0-based row[k] is field k+1 here.    *)
(* A decoded position is kept exactly, as a mixed number whole + frac /     *)
(* PosDen in units of 10^-5 rad (see uint_to_float).                       *)
(***************************************************************************)
EXTENDS Integers, Sequences, FiniteSets, TLC

(***************************************************************************)
(* Bounds of the model                                                     *)
(***************************************************************************)
\* Number of rows the logger writes in a run.
MaxWritten == 3
\* The same, where the handler and the display run step by step.
MaxWrittenThreads == 2
\* The same, where the logger draws from the wide catalogue.
MaxWrittenWide == 2
\* max_points, the capacity handed to CSVHandler (100 in main), scaled down
\* so that a channel overflows within MaxWritten rows.
max_points == 1

(***************************************************************************)
(* Text helpers: str.strip, str.split(sep), str.split(), int(s, 16)        *)
(***************************************************************************)
Whitespace == {" ", "\t", "\n", "\r"}

UpperHex == <<"0","1","2","3","4","5","6","7","8","9","A","B","C","D","E","F">>
LowerHex == <<"0","1","2","3","4","5","6","7","8","9","a","b","c","d","e","f">>

\* Value of one base-16 digit, -1 for any other character.
DigitVal(ch) ==
    IF \E i \in 1..16 : UpperHex[i] = ch
    THEN (CHOOSE i \in 1..16 : UpperHex[i] = ch) - 1
    ELSE IF \E i \in 1..16 : LowerHex[i] = ch
         THEN (CHOOSE i \in 1..16 : LowerHex[i] = ch) - 1
         ELSE -1

Drop(s, n) == SubSeq(s, n + 1, Len(s))

RECURSIVE LStrip(_)
LStrip(s) == IF s # <<>> /\ Head(s) \in Whitespace THEN LStrip(Tail(s)) ELSE s

RECURSIVE RStrip(_)
RStrip(s) ==
    IF s # <<>> /\ s[Len(s)] \in Whitespace
    THEN RStrip(SubSeq(s, 1, Len(s) - 1))
    ELSE s

\* str.strip()
Strip(s) == RStrip(LStrip(s))

\* s.split(sep): the pieces between the occurrences of the character sep
\* (always at least one piece, empty pieces kept).
RECURSIVE SplitOn(_, _)
SplitOn(s, sep) ==
    IF \A i \in 1..Len(s) : s[i] # sep
    THEN <<s>>
    ELSE LET k == CHOOSE i \in 1..Len(s) :
                      s[i] = sep /\ \A j \in 1..(i - 1) : s[j] # sep
         IN <<SubSeq(s, 1, k - 1)>> \o SplitOn(Drop(s, k), sep)

\* s.split(): the maximal runs of non-whitespace characters.
RECURSIVE SplitWS(_)
SplitWS(s) ==
    LET t == LStrip(s)
    IN IF t = <<>>
       THEN <<>>
       ELSE LET n == IF \E i \in 1..Len(t) : t[i] \in Whitespace
                     THEN (CHOOSE i \in 1..Len(t) :
                              t[i] \in Whitespace
                              /\ \A j \in 1..(i - 1) : t[j] \notin Whitespace) - 1
                     ELSE Len(t)
            IN <<SubSeq(t, 1, n)>> \o SplitWS(Drop(t, n))

\* sep in s
Contains(s, sep) == \E i \in 1..Len(s) : s[i] = sep

\* The digits of a base-16 literal after sign and prefix: hex digits, with
\* single underscores allowed between digits (and, after a 0x prefix, in
\* front of the first digit).
DigitsOk(d, prefixed) ==
    /\ d # <<>>
    /\ \A i \in 1..Len(d) : d[i] = "_" \/ DigitVal(d[i]) >= 0
    /\ d[Len(d)] # "_"
    /\ prefixed \/ d[1] # "_"
    /\ \A i \in 1..(Len(d) - 1) : ~(d[i] = "_" /\ d[i + 1] = "_")

RECURSIVE DigitsValue(_, _)
DigitsValue(d, acc) ==
    IF d = <<>> THEN acc
    ELSE IF Head(d) = "_" THEN DigitsValue(Tail(d), acc)
    ELSE DigitsValue(Tail(d), acc * 16 + DigitVal(Head(d)))

\* int(s, 16): [ok |-> TRUE, val |-> n], or ok = FALSE where Python raises
\* ValueError.  Surrounding whitespace, one sign and a 0x/0X prefix are
\* accepted, as Python accepts them.
IntBase16(s) ==
    LET t == Strip(s)
        signed == t # <<>> /\ t[1] \in {"+", "-"}
        u == IF signed THEN Tail(t) ELSE t
        prefixed == Len(u) >= 2 /\ u[1] = "0" /\ u[2] \in {"x", "X"}
        d == IF prefixed THEN Drop(u, 2) ELSE u
    IN IF DigitsOk(d, prefixed)
       THEN [ok |-> TRUE,
             val |-> IF signed /\ t[1] = "-"
                     THEN 0 - DigitsValue(d, 0)
                     ELSE DigitsValue(d, 0)]
       ELSE [ok |-> FALSE, val |-> 0]

(***************************************************************************)
(* Integer helpers: Python's << and | on unbounded integers                *)
(***************************************************************************)
RECURSIVE BitAndNat(_, _)
BitAndNat(a, b) ==
    IF a = 0 \/ b = 0 THEN 0
    ELSE (a % 2) * (b % 2) + 2 * BitAndNat(a \div 2, b \div 2)

RECURSIVE BitOrNat(_, _)
BitOrNat(a, b) ==
    IF a = 0 THEN b
    ELSE IF b = 0 THEN a
    ELSE (IF a % 2 = 1 \/ b % 2 = 1 THEN 1 ELSE 0)
         + 2 * BitOrNat(a \div 2, b \div 2)

\* ~x on two's-complement integers of unbounded width
BitNot(x) == 0 - x - 1

\* a | b
BitOr(a, b) ==
    IF a >= 0 /\ b >= 0 THEN BitOrNat(a, b)
    ELSE IF a < 0 /\ b < 0 THEN BitNot(BitAndNat(BitNot(a), BitNot(b)))
    ELSE IF a < 0 THEN BitNot(BitNot(a) - BitAndNat(BitNot(a), b))
    ELSE BitNot(BitNot(b) - BitAndNat(BitNot(b), a))

\* a << n
ShiftLeft(a, n) == a * (2 ^ n)

(***************************************************************************)
(* Program constants                                                       *)
(***************************************************************************)
\* x_min, x_max of the position range, in units of 10^-5 rad (-3.14159,
\* 3.14159), and the width of the raw position value.
PosMin == -314159
PosMax == 314159
PosBits == 16
\* Data[0] of a motor reply
MotorReplyTag == 1
\* A frame has 8 data bytes; a row has at least 10 columns.
FrameBytes == 8
MinFields == 10

(***************************************************************************)
(* Decoding                                                                *)
(***************************************************************************)
\* One doubling step of MulFrac: from h = (x div 2) * num / den to
\* x * num / den.
MulFracStep(h, x, num, den) ==
    LET w2 == 2 * h.whole + (2 * h.frac) \div den
        f2 == (2 * h.frac) % den
    IN IF x % 2 = 0 THEN [whole |-> w2, frac |-> f2]
       ELSE [whole |-> w2 + num \div den + (f2 + (num % den)) \div den,
             frac |-> (f2 + (num % den)) % den]

\* x * num / den for x >= 0, num >= 0, den > 0, exactly, as the mixed
\* number whole + frac / den with 0 <= frac < den (computed by doubling, so
\* that no intermediate product leaves the 32-bit range; the half is bound
\* as a value so that it is computed once).
RECURSIVE MulFrac(_, _, _)
MulFrac(x, num, den) ==
    IF x = 0 THEN [whole |-> 0, frac |-> 0]
    ELSE CHOOSE r \in {MulFracStep(h, x, num, den) :
                          h \in {MulFrac(x \div 2, num, den)}} : TRUE

\* -(m) as a mixed number with 0 <= frac < den
NegMixed(m, den) ==
    IF m.frac = 0 THEN [whole |-> 0 - m.whole, frac |-> 0]
    ELSE [whole |-> 0 - m.whole - 1, frac |-> den - m.frac]

\* The raw value divided by 2^bits instead of 2^bits - 1.
uint_to_float_PowerOfTwo(x_int, x_min, x_max, bits) ==
    LET scaled == MulFrac(x_int, x_max - x_min, 2 ^ bits)
    IN [whole |-> scaled.whole + x_min, frac |-> scaled.frac]

\* uint_to_float, exactly: x_int * span / (2^bits - 1) + offset as the mixed
\* number whole + frac / (2^bits - 1), in the unit of x_min and x_max
\* (10^-5 rad for PosMin, PosMax).
uint_to_float(x_int, x_min, x_max, bits) ==
    LET span == x_max - x_min
        offset == x_min
        den == (2 ^ bits) - 1
        scaled == IF x_int >= 0 THEN MulFrac(x_int, span, den)
                  ELSE NegMixed(MulFrac(0 - x_int, span, den), den)
    IN [whole |-> scaled.whole + offset, frac |-> scaled.frac]

\* Denominator of the fractional part of a stored position.
PosDen == (2 ^ PosBits) - 1

\* parse_position: some = FALSE models None.
parse_position(data) ==
    IF Len(data) # FrameBytes \/ data[1] # MotorReplyTag
    THEN [some |-> FALSE, val |-> [whole |-> 0, frac |-> 0]]
    ELSE [some |-> TRUE,
          val |-> uint_to_float(BitOr(ShiftLeft(data[2], 8), data[3]),
                                PosMin, PosMax, PosBits)]

\* The hex tokens of the data column: data_str.split('|')[1].strip().split()
DataHex(data_str) == SplitWS(Strip(SplitOn(data_str, "|")[2]))

\* The data column read from column 8 instead of column 9.
DataStr_Column8(row) == row[9]

\* data_str = row[9] if len(row) > 9 else row[8]   (line 56)
DataStr(row) == IF Len(row) > 9 THEN row[10] ELSE row[9]

\* Lines 52-66 of on_modified for one row, up to and including
\* parse_position: what the row is, and the sample's id and position.
\*   "short_row", "bad_format", "bad_byte_count": the three checks that
\*        print and continue;
\*   "parse_error": int(x, 16) raised ValueError on a byte or on row[5];
\*   "skip": parse_position returned None;
\*   "sample": a position for can_id.
DecodeRow(row) ==
    LET none(k) == [kind |-> k, can_id |-> 0,
                       pos |-> [whole |-> 0, frac |-> 0]]
    IN IF Len(row) < MinFields THEN none("short_row")
       ELSE IF ~Contains(DataStr(row), "|") THEN none("bad_format")
       ELSE LET data_hex == DataHex(DataStr(row))
            IN IF Len(data_hex) # FrameBytes THEN none("bad_byte_count")
               ELSE IF \E i \in 1..Len(data_hex) : ~IntBase16(data_hex[i]).ok
                    THEN none("parse_error")
               ELSE LET data == [i \in 1..Len(data_hex) |->
                                    IntBase16(data_hex[i]).val]
                        can_id == IntBase16(row[6])
                        pos == parse_position(data)
                    IN IF ~can_id.ok THEN none("parse_error")
                       ELSE IF ~pos.some THEN none("skip")
                       ELSE [kind |-> "sample", can_id |-> can_id.val,
                             pos |-> pos.val]

\* int(row[2], 16) of line 72
RowTime(row) == IntBase16(row[3])

(***************************************************************************)
(* The rows the environment writes to the log                              *)
(***************************************************************************)
Txt2(a, b) == <<a, b>>
Txt3(a, b, c) == <<a, b, c>>

RECURSIVE JoinBytes(_)
JoinBytes(toks) ==
    IF toks = <<>> THEN <<>>
    ELSE IF Len(toks) = 1 THEN Head(toks)
    ELSE Head(toks) \o <<" ">> \o JoinBytes(Tail(toks))

\* "Data|<tokens separated by blanks>"
DataField(toks) == <<"D", "a", "t", "a", "|">> \o JoinBytes(toks)

\* A 10-column row: timestamp in column 2, id in column 5, data in column 9.
MkRow(ts, id, data_str) ==
    <<<<>>, <<>>, ts, <<>>, <<>>, id, <<>>, <<>>, <<>>, data_str>>

Zero == Txt2("0", "0")
Frame(tag, hi, lo) == <<tag, hi, lo, Zero, Zero, Zero, Zero, Zero>>

IdA == Txt3("2", "0", "1")
IdB == Txt3("2", "0", "2")

RowCatalogue == <<
    \* 1, 2: two motor replies of channel 0x201
    MkRow(Txt2("1", "0"), IdA, DataField(Frame(Txt2("0","1"), Txt2("8","0"), Zero))),
    MkRow(Txt2("1", "1"), IdA, DataField(Frame(Txt2("0","1"), Txt2("F","F"), Txt2("F","F")))),
    \* 3: a motor reply of channel 0x202
    MkRow(Txt2("2", "0"), IdB, DataField(Frame(Txt2("0","1"), Zero, Zero))),
    \* 4: a motor reply of channel 0x201 whose timestamp column is not hex
    MkRow(<<"G">>, IdA, DataField(Frame(Txt2("0","1"), Zero, Txt2("0","1")))),
    \* 5: another frame type (tag 0x02)
    MkRow(Txt2("3", "0"), IdA, DataField(Frame(Txt2("0","2"), Zero, Zero))),
    \* 6: a row of 6 columns
    <<<<>>, <<>>, Txt2("4", "0"), <<>>, <<>>, IdA>>,
    \* 7: no '|' in the data column
    MkRow(Txt2("5", "0"), IdA, JoinBytes(Frame(Txt2("0","1"), Zero, Zero))),
    \* 8: 7 byte tokens
    MkRow(Txt2("6", "0"), IdA, DataField(Tail(Frame(Txt2("0","1"), Zero, Zero)))),
    \* 9: a byte token that is not hex
    MkRow(Txt2("7", "0"), IdA, DataField(Frame(Txt2("0","1"), Txt2("G","G"), Zero))),
    \* 10: an id column that is not hex
    MkRow(Txt2("8", "0"), <<"I", "D">>, DataField(Frame(Txt2("0","1"), Zero, Zero)))
>>

RowIds == 1..Len(RowCatalogue)

\* Further rows, written only by the logger of SpecWide.
Payload80 == DataField(Frame(Txt2("0","1"), Txt2("8","0"), Zero))

ExtraRows == <<
    \* 11: another frame type (tag 0x02) with an id column that is not hex
    MkRow(Txt2("3", "1"), <<"I", "D">>,
          DataField(Frame(Txt2("0","2"), Zero, Zero))),
    \* 12: a motor reply whose high position byte is the token 1FF
    MkRow(Txt2("4", "0"), IdA,
          DataField(Frame(Txt2("0","1"), Txt3("1","F","F"), Zero))),
    \* 13: a motor reply whose low position byte is the token -1
    MkRow(Txt2("4", "1"), IdA,
          DataField(Frame(Txt2("0","1"), Zero, Txt2("-","1")))),
    \* 14: a row of 9 columns with a well-formed payload in its last column
    <<<<>>, <<>>, Txt2("5", "0"), <<>>, <<>>, IdA, <<>>, <<>>, Payload80>>,
    \* 15: a row of 11 columns: the payload in column 9, no separator in
    \*     column 8, another payload in column 10
    <<<<>>, <<>>, Txt2("5", "1"), <<>>, <<>>, IdA, <<>>, <<>>, <<"x">>,
      Payload80, DataField(Frame(Txt2("0","1"), Zero, Zero))>>,
    \* 16: a row of 10 columns with a payload in column 8 and no separator
    \*     in column 9
    <<<<>>, <<>>, Txt2("5", "2"), <<>>, <<>>, IdA, <<>>, <<>>, Payload80,
      <<"x">>>>,
    \* 17: a data column with a second '|': "Data|01 80 00 ... 00|zz"
    MkRow(Txt2("6", "0"), IdA, Payload80 \o <<"|", "z", "z">>)
>>

WideCatalogue == RowCatalogue \o ExtraRows
WideRowIds == 1..Len(WideCatalogue)

\* What the handler makes of each catalogue row.
Decoded == [k \in WideRowIds |-> DecodeRow(WideCatalogue[k])]
Timed == [k \in WideRowIds |-> RowTime(WideCatalogue[k])]

(***************************************************************************)
(* State                                                                   *)
(***************************************************************************)
VARIABLES
    file,            \* the rows of data_0004.csv, as catalogue numbers
    written,         \* how many rows the logger has written so far
    last_processed,  \* CSVHandler.last_processed
    data_dict,       \* {can_id: [positions]}, shared with animate
    times,           \* the timestamp list, shared with animate
    lines,           \* animate's {can_id: line}; a line is its (x, y) data
    hist,            \* observation: the last call of on_modified
    origin,          \* observation: for each stored position, the parse of
                     \* the timestamp column of the row that produced it
    ideal,           \* observation: the per-channel FIFO of (timestamp,
                     \* position) pairs of the fully decoded rows
    pc, rows, todo, cur,   \* on_modified running in the observer thread:
                           \* its place, the list read, the rows of the
                           \* slice still to process, the sample in hand
    apc, akeys, atodo,     \* animate running in the GUI thread: its place,
                           \* the keys of data_dict when its loop began,
                           \* the keys still to visit
    quant            \* two raw 16-bit values given to uint_to_float and,
                     \* once it was applied, the positions it returned

store == <<last_processed, data_dict, times>>
observation == <<hist, origin, ideal>>
handler == <<pc, rows, todo, cur>>
display == <<apc, akeys, atodo>>
vars == <<file, written, store, lines, observation, handler, display,
          quant>>

NoCur == [can_id |-> 0, row |-> 0]

InitViewer ==
    /\ file = <<>>
    /\ written = 0
    /\ last_processed = 0
    /\ data_dict = <<>>
    /\ times = <<>>
    /\ lines = <<>>
    /\ hist = [op |-> "init", from |-> 0, rows |-> <<>>, visited |-> <<>>,
               report |-> <<>>, stored |-> 0, prev |-> "init"]
    /\ origin = <<>>
    /\ ideal = <<>>
    /\ pc = "idle"
    /\ rows = <<>>
    /\ todo = <<>>
    /\ cur = NoCur
    /\ apc = "idle"
    /\ akeys = {}
    /\ atodo = {}

NoQuant == [raw1 |-> 0, raw2 |-> 0, done |-> FALSE,
            pos1 |-> [whole |-> 0, frac |-> 0],
            pos2 |-> [whole |-> 0, frac |-> 0]]

Init == InitViewer /\ quant = NoQuant

(***************************************************************************)
(* The store operations of on_modified, lines 69-76                        *)
(***************************************************************************)
\* if can_id not in self.data_dict: self.data_dict[can_id] = []
Register(dd, id) ==
    IF id \in DOMAIN dd THEN dd
    ELSE [c \in DOMAIN dd \cup {id} |-> IF c = id THEN <<>> ELSE dd[c]]

\* self.data_dict[can_id].append(pos)
AppendPos(dd, id, pos) == [dd EXCEPT ![id] = Append(@, pos)]

\* self.times.append(t)
AppendTime(tm, t) == Append(tm, t)

\* len(self.data_dict[can_id]) > self.max_points
Overfull(dd, id) == Len(dd[id]) > max_points

\* self.data_dict[can_id].pop(0)
PopPos(dd, id) == [dd EXCEPT ![id] = Tail(@)]

\* self.times.pop(0)
PopTime(tm) == Tail(tm)

\* The slice taken one row too early.
NewRows_FromLast(rs, c) == SubSeq(rs, IF c = 0 THEN 1 ELSE c, Len(rs))

\* The whole list again, whatever the cursor.
NewRows_All(rs, c) == rs

\* rows[self.last_processed:]
NewRows(rs, c) == SubSeq(rs, c + 1, Len(rs))

\* The cursor set to the index of the last row instead of the row count.
CursorAfter_LastIndex(rs) == IF rs = <<>> THEN 0 ELSE Len(rs) - 1

\* self.last_processed = len(rows)
CursorAfter(rs) == Len(rs)

\* times[-n:] for n > 0: the last n entries, all of them when there are
\* fewer than n.
LastN(tm, n) == SubSeq(tm, IF Len(tm) > n THEN Len(tm) - n + 1 ELSE 1, Len(tm))

\* The x data animate gives the line of channel c: times[-len(positions):]
Presented(dd, tm, c) == LastN(tm, Len(dd[c]))

(***************************************************************************)
(* Observation: the bounded FIFO of (timestamp, position) pairs per        *)
(* channel that the rows decoded so far call for.  evicted records that    *)
(* the channel has received more than max_points samples.                  *)
(***************************************************************************)
IdealAppend(idl, id, ts, pos) ==
    LET old == IF id \in DOMAIN idl THEN idl[id]
               ELSE [buf |-> <<>>, evicted |-> FALSE]
        grown == Append(old.buf, [ts |-> ts, pos |-> pos])
        new == IF Len(grown) > max_points
               THEN [buf |-> Tail(grown), evicted |-> TRUE]
               ELSE [buf |-> grown, evicted |-> old.evicted]
    IN [c \in DOMAIN idl \cup {id} |-> IF c = id THEN new ELSE idl[c]]

(***************************************************************************)
(* One row of the loop of on_modified (lines 50-78) on the record          *)
(* st = [data_dict, times, origin, ideal, report, stored].  report is what *)
(* the loop prints, stored counts the positions it appends.                *)
(***************************************************************************)
ProcessRow(st, k) ==
    LET d == Decoded[k]
        t == Timed[k]
        id == d.can_id
    IN IF d.kind = "skip" THEN st
       ELSE IF d.kind # "sample"
       THEN [st EXCEPT !.report = Append(@, d.kind)]
       ELSE LET dd1 == AppendPos(Register(st.data_dict, id), id, d.pos)
                org1 == AppendPos(Register(st.origin, id), id, t)
            IN IF ~t.ok
               THEN \* int(row[2], 16) raises after the position is stored
                    [st EXCEPT !.data_dict = dd1, !.origin = org1,
                               !.stored = @ + 1,
                               !.report = Append(@, "parse_error")]
               ELSE LET tm1 == AppendTime(st.times, t.val)
                        over == Overfull(dd1, id)
                    IN [st EXCEPT
                          !.data_dict = IF over THEN PopPos(dd1, id) ELSE dd1,
                          !.origin = IF over THEN PopPos(org1, id) ELSE org1,
                          !.times = IF over THEN PopTime(tm1) ELSE tm1,
                          !.ideal = IdealAppend(@, id, t.val, d.pos),
                          !.stored = @ + 1]

\* The loop left at the first row that is reported without a sample
\* (break instead of continue).
RECURSIVE IngestRows_StopAtReport(_, _)
IngestRows_StopAtReport(st, new) ==
    IF new = <<>> THEN st
    ELSE IF Decoded[Head(new)].kind \notin {"sample", "skip"}
    THEN ProcessRow(st, Head(new))
    ELSE CHOOSE r \in {IngestRows_StopAtReport(s1, Tail(new)) :
                          s1 \in {ProcessRow(st, Head(new))}} : TRUE

\* for row in rows[self.last_processed:]
RECURSIVE IngestRows(_, _)
IngestRows(st, new) ==
    IF new = <<>> THEN st
    ELSE CHOOSE r \in {IngestRows(s1, Tail(new)) :
                          s1 \in {ProcessRow(st, Head(new))}} : TRUE

(***************************************************************************)
(* on_modified as one step: a whole call of the handler                    *)
(***************************************************************************)
\* The file was read: lines 47-79.
Pass ==
    /\ pc = "idle"
    /\ \E new \in {NewRows(file, last_processed)} :
       \E st \in {IngestRows([data_dict |-> data_dict, times |-> times,
                               origin |-> origin, ideal |-> ideal,
                               report |-> <<>>, stored |-> 0], new)} :
          /\ data_dict' = st.data_dict
          /\ times' = st.times
          /\ origin' = st.origin
          /\ ideal' = st.ideal
          /\ hist' = [op |-> "pass", from |-> last_processed, rows |-> file,
                      visited |-> new, report |-> st.report,
                      stored |-> st.stored, prev |-> hist.op]
    /\ last_processed' = CursorAfter(file)
    /\ UNCHANGED <<file, written, lines, handler, display>>
    /\ UNCHANGED quant

\* The cursor advanced to the end of the log although the read failed.
CursorOnFail_Advance(c, rs) == Len(rs)

\* The cursor after read_csv_with_encoding raised (lines 80-81): the
\* assignment of line 79 is not reached.
CursorOnFail(c, rs) == c

\* read_csv_with_encoding raised: lines 47, 80-81.
ReadFail ==
    /\ pc = "idle"
    /\ last_processed' = CursorOnFail(last_processed, file)
    /\ hist' = [op |-> "fail", from |-> last_processed, rows |-> <<>>,
                visited |-> <<>>, report |-> <<"read_error">>, stored |-> 0,
                prev |-> hist.op]
    /\ UNCHANGED <<file, written, data_dict, times, lines, origin, ideal,
                   handler, display>>
    /\ UNCHANGED quant

(***************************************************************************)
(* The environment: the logger appends rows; the log may be replaced by a  *)
(* shorter one.                                                            *)
(***************************************************************************)
FileAppend ==
    /\ written < MaxWritten
    /\ \E k \in RowIds : file' = Append(file, k)
    /\ written' = written + 1
    /\ UNCHANGED <<store, lines, observation, handler, display>>
    /\ UNCHANGED quant

FileTruncate ==
    /\ \E n \in 0..(Len(file) - 1) : file' = SubSeq(file, 1, n)
    /\ UNCHANGED written
    /\ UNCHANGED <<store, lines, observation, handler, display>>
    /\ UNCHANGED quant

\* The ingestion side: calls of on_modified against a log that grows and
\* may be replaced.
Next == Pass \/ ReadFail \/ FileAppend \/ FileTruncate

Spec == Init /\ [][Next]_vars

(***************************************************************************)
(* on_modified and animate step by step.  The handler runs in watchdog's   *)
(* observer thread, animate in the GUI thread (main, lines 115-124), and   *)
(* nothing serialises them: a step is one access to data_dict or times.    *)
(* A row's local computation (lines 52-68) is taken together with the      *)
(* first access that follows it.                                           *)
(***************************************************************************)
Reported(h, kind) == [h EXCEPT !.report = Append(@, kind)]
Stored(h) == [h EXCEPT !.stored = @ + 1]

\* Line 47 succeeded, line 49 took the slice.
HRead ==
    /\ pc = "idle"
    /\ rows' = file
    /\ todo' = NewRows(file, last_processed)
    /\ pc' = "loop"
    /\ hist' = [op |-> "pass", from |-> last_processed, rows |-> file,
                visited |-> NewRows(file, last_processed), report |-> <<>>,
                stored |-> 0, prev |-> hist.op]
    /\ UNCHANGED <<file, written, store, lines, origin, ideal, cur, display>>
    /\ UNCHANGED quant

\* Lines 50-71 for the next row: a row that is no sample is reported or
\* skipped; a sample of a new channel registers it (line 70), a sample of
\* a known channel is appended (line 71).
HRow ==
    /\ pc = "loop" /\ todo # <<>>
    /\ \E k \in {Head(todo)} :
       \E d \in {Decoded[k]} :
          IF d.kind # "sample"
          THEN /\ todo' = Tail(todo)
               /\ hist' = IF d.kind = "skip" THEN hist
                          ELSE Reported(hist, d.kind)
               /\ UNCHANGED <<data_dict, origin, cur, pc>>
          ELSE /\ cur' = [can_id |-> d.can_id, row |-> k]
               /\ IF d.can_id \notin DOMAIN data_dict
                  THEN /\ data_dict' = Register(data_dict, d.can_id)
                       /\ origin' = Register(origin, d.can_id)
                       /\ pc' = "pos"
                       /\ UNCHANGED hist
                  ELSE /\ data_dict' = AppendPos(data_dict, d.can_id, d.pos)
                       /\ origin' = AppendPos(origin, d.can_id, Timed[k])
                       /\ pc' = "time"
                       /\ hist' = Stored(hist)
               /\ UNCHANGED todo
    /\ UNCHANGED <<file, written, last_processed, times, lines, ideal, rows,
                   display>>
    /\ UNCHANGED quant

\* Line 71 after line 70.
HAppendPos ==
    /\ pc = "pos"
    /\ data_dict' = AppendPos(data_dict, cur.can_id, Decoded[cur.row].pos)
    /\ origin' = AppendPos(origin, cur.can_id, Timed[cur.row])
    /\ hist' = Stored(hist)
    /\ pc' = "time"
    /\ UNCHANGED <<file, written, last_processed, times, lines, ideal, rows,
                   todo, cur, display>>
    /\ UNCHANGED quant

\* Line 72: the timestamp is parsed and appended, or int() raises and the
\* row ends in the except clause of line 77.
HAppendTime ==
    /\ pc = "time"
    /\ IF Timed[cur.row].ok
       THEN /\ times' = AppendTime(times, Timed[cur.row].val)
            /\ ideal' = IdealAppend(ideal, cur.can_id, Timed[cur.row].val,
                                    Decoded[cur.row].pos)
            /\ pc' = "evict"
            /\ UNCHANGED <<hist, todo, cur>>
       ELSE /\ hist' = Reported(hist, "parse_error")
            /\ todo' = Tail(todo)
            /\ cur' = NoCur
            /\ pc' = "loop"
            /\ UNCHANGED <<times, ideal>>
    /\ UNCHANGED <<file, written, last_processed, data_dict, lines, origin,
                   rows, display>>
    /\ UNCHANGED quant

\* Lines 74-75.
HEvictPos ==
    /\ pc = "evict"
    /\ IF Overfull(data_dict, cur.can_id)
       THEN /\ data_dict' = PopPos(data_dict, cur.can_id)
            /\ origin' = PopPos(origin, cur.can_id)
            /\ pc' = "evict_t"
            /\ UNCHANGED <<todo, cur>>
       ELSE /\ todo' = Tail(todo)
            /\ cur' = NoCur
            /\ pc' = "loop"
            /\ UNCHANGED <<data_dict, origin>>
    /\ UNCHANGED <<file, written, last_processed, times, lines, hist, ideal,
                   rows, display>>
    /\ UNCHANGED quant

\* Line 76.
HEvictTime ==
    /\ pc = "evict_t"
    /\ times' = PopTime(times)
    /\ todo' = Tail(todo)
    /\ cur' = NoCur
    /\ pc' = "loop"
    /\ UNCHANGED <<file, written, last_processed, data_dict, lines,
                   observation, rows, display>>
    /\ UNCHANGED quant

\* Line 79, after the last row.
HEnd ==
    /\ pc = "loop" /\ todo = <<>>
    /\ last_processed' = CursorAfter(rows)
    /\ rows' = <<>>
    /\ pc' = "idle"
    /\ UNCHANGED <<file, written, data_dict, times, lines, observation, todo,
                   cur, display>>
    /\ UNCHANGED quant

\* if not lines: one empty line per known channel (lines 86-89)
InitLines(ln, dd) ==
    IF DOMAIN ln = {} THEN [c \in DOMAIN dd |-> [x |-> <<>>, y |-> <<>>]]
    ELSE ln

\* The data of the line of channel c after lines 91-94: set_data(
\* times[-len(positions):], positions) when c has positions.
SetData(ln, dd, tm, c) ==
    IF dd[c] # <<>>
    THEN [x |-> Presented(dd, tm, c), y |-> dd[c]]
    ELSE ln[c]

\* Lines 86-90: the lines are created on the first tick that finds
\* channels, and the loop over data_dict.items() begins.
ABegin ==
    /\ apc = "idle"
    /\ lines' = InitLines(lines, data_dict)
    /\ akeys' = DOMAIN data_dict
    /\ atodo' = DOMAIN data_dict
    /\ apc' = "loop"
    /\ UNCHANGED <<file, written, store, observation, handler>>
    /\ UNCHANGED quant

\* One turn of the loop of line 90: the iterator raises RuntimeError when
\* the handler has added a key since the loop began (the tick ends there);
\* otherwise the next channel is drawn (lines 91-94), or the loop is over.
\* Reading the list and its length and slicing times are taken as one
\* access.
AStep ==
    /\ apc = "loop"
    /\ IF DOMAIN data_dict # akeys \/ atodo = {}
       THEN /\ apc' = "idle"
            /\ akeys' = {}
            /\ atodo' = {}
            /\ UNCHANGED lines
       ELSE \E c \in atodo :
               /\ lines' = IF c \in DOMAIN lines
                           THEN [lines EXCEPT
                                   ![c] = SetData(lines, data_dict, times, c)]
                           ELSE lines
               /\ atodo' = atodo \ {c}
               /\ UNCHANGED <<apc, akeys>>
    /\ UNCHANGED <<file, written, store, observation, handler>>
    /\ UNCHANGED quant

FileAppendThreads ==
    /\ written < MaxWrittenThreads
    /\ \E k \in RowIds : file' = Append(file, k)
    /\ written' = written + 1
    /\ UNCHANGED <<store, lines, observation, handler, display>>
    /\ UNCHANGED quant

\* The two threads and the logger.
NextThreads ==
    \/ HRead \/ ReadFail \/ HRow \/ HAppendPos \/ HAppendTime \/ HEvictPos
    \/ HEvictTime \/ HEnd
    \/ ABegin \/ AStep
    \/ FileAppendThreads \/ FileTruncate

SpecThreads == Init /\ [][NextThreads]_vars

\* The timer of FuncAnimation (line 115, interval 50 ms) keeps calling
\* animate, and the observer thread, once in on_modified, runs it to its
\* end: every step of either thread that stays enabled is taken.  The
\* logger and the watchdog events are under no obligation.
FairThreads ==
    /\ WF_vars(ABegin) /\ WF_vars(AStep)
    /\ WF_vars(HRow) /\ WF_vars(HAppendPos) /\ WF_vars(HAppendTime)
    /\ WF_vars(HEvictPos) /\ WF_vars(HEvictTime) /\ WF_vars(HEnd)

SpecThreadsFair == SpecThreads /\ FairThreads

(***************************************************************************)
(* The ingestion side against a log that only grows.                       *)
(***************************************************************************)
NextAppendOnly == Pass \/ ReadFail \/ FileAppend

SpecAppendOnly == Init /\ [][NextAppendOnly]_vars

(***************************************************************************)
(* The ingestion side against a logger that also writes the rows of        *)
(* ExtraRows.                                                              *)
(***************************************************************************)
FileAppendWide ==
    /\ written < MaxWrittenWide
    /\ \E k \in WideRowIds : file' = Append(file, k)
    /\ written' = written + 1
    /\ UNCHANGED <<store, lines, observation, handler, display>>
    /\ UNCHANGED quant

NextWide == Pass \/ ReadFail \/ FileAppendWide

SpecWide == Init /\ [][NextWide]_vars

(***************************************************************************)
(* uint_to_float on its own: two raw values of the 16-bit field, either    *)
(* neighbours or the second one the largest, are de-quantised as line 21   *)
(* does.                                                                   *)
(***************************************************************************)
RawMax == (2 ^ PosBits) - 1

InitQuant ==
    /\ InitViewer
    /\ \E r \in 0..(RawMax - 1) : \E r2 \in {r + 1, RawMax} :
          quant = [NoQuant EXCEPT !.raw1 = r, !.raw2 = r2]

Dequantize ==
    /\ ~quant.done
    /\ quant' = [quant EXCEPT
                   !.done = TRUE,
                   !.pos1 = uint_to_float(quant.raw1, PosMin, PosMax, PosBits),
                   !.pos2 = uint_to_float(quant.raw2, PosMin, PosMax, PosBits)]
    /\ UNCHANGED <<file, written, store, lines, observation, handler,
                   display>>

SpecQuant == InitQuant /\ [][Dequantize]_vars

(***************************************************************************)
(* Vocabulary of the properties                                            *)
(***************************************************************************)
\* Row k decodes to a sample: structure, bytes, id, tag and timestamp.
IsSampleRow(k) == Decoded[k].kind = "sample" /\ Timed[k].ok

\* Row k passes the structural checks and carries tag 0x01, but its
\* timestamp column is not base-16.
IsBadTimeRow(k) == Decoded[k].kind = "sample" /\ ~Timed[k].ok

\* Row k is rejected: one of the rejection kinds of the error taxonomy.
IsMalformedRow(k) ==
    \/ Decoded[k].kind \in {"short_row", "bad_format", "bad_byte_count",
                            "parse_error"}
    \/ IsBadTimeRow(k)

\* The rows of the log the cursor has not passed.
Unread == SubSeq(file, last_processed + 1, Len(file))

\* Number of malformed rows, and of rows decoding to a sample, in a list.
MalformedCount(rs) == Cardinality({i \in 1..Len(rs) : IsMalformedRow(rs[i])})
SampleCount(rs) == Cardinality({i \in 1..Len(rs) : IsSampleRow(rs[i])})

(***************************************************************************)
(* C1 -- a row with tag 0x01 and an unparseable timestamp is rejected      *)
(* without effect: a pass over exactly that row leaves every channel       *)
(* buffer, the channel set and the timestamp list unchanged.               *)
(* The code appends the position (registering the channel) before it       *)
(* parses the timestamp.                                                   *)
(***************************************************************************)
C1_BadTimestampNoSample ==
    [][\A k \in RowIds :
          (IsBadTimeRow(k) /\ Unread = <<k>> /\ Pass)
              => UNCHANGED <<data_dict, times>>]_vars

(***************************************************************************)
(* C2 -- after every row, every channel buffer holds at most max_points    *)
(* positions.  (Every state of Spec is a pass boundary, and a pass may end *)
(* after any row.)                                                         *)
(***************************************************************************)
C2_BufferBounded ==
    \A c \in DOMAIN data_dict : Len(data_dict[c]) <= max_points

(***************************************************************************)
(* C3 -- at every pass boundary the timestamps presented for a channel     *)
(* (times[-len(positions):]) are as many as its positions, and entry i is  *)
(* the timestamp of the row that produced position i.  Stated for the      *)
(* stores all of whose positions come from rows with a base-16 timestamp,  *)
(* so that the violation shown is not the one of C1.                       *)
(***************************************************************************)
AllOriginsTimed ==
    \A c \in DOMAIN origin : \A i \in 1..Len(origin[c]) : origin[c][i].ok

C3_TimestampsAligned ==
    AllOriginsTimed =>
        \A c \in DOMAIN data_dict :
            /\ Len(Presented(data_dict, times, c)) = Len(data_dict[c])
            /\ \A i \in 1..Len(data_dict[c]) :
                   Presented(data_dict, times, c)[i] = origin[c][i].val

(***************************************************************************)
(* C4 -- ingesting one sample for channel a leaves the positions, the      *)
(* presented timestamps and the length of every other channel unchanged.   *)
(***************************************************************************)
C4_OtherChannelsUntouched ==
    [][\A k \in RowIds :
          (IsSampleRow(k) /\ Unread = <<k>> /\ Pass)
              => \A b \in DOMAIN data_dict \ {Decoded[k].can_id} :
                    /\ b \in DOMAIN data_dict'
                    /\ data_dict'[b] = data_dict[b]
                    /\ Presented(data_dict', times', b)
                           = Presented(data_dict, times, b)]_vars

(***************************************************************************)
(* C5 -- once a channel has accepted more than max_points samples, its     *)
(* buffer holds exactly the positions of the most recent max_points        *)
(* accepted samples, in log order.                                         *)
(***************************************************************************)
C5_KeepsMostRecent ==
    \A c \in DOMAIN ideal :
        ideal[c].evicted =>
            /\ c \in DOMAIN data_dict
            /\ data_dict[c] = [i \in 1..Len(ideal[c].buf) |-> ideal[c].buf[i].pos]

(***************************************************************************)
(* C6 -- a pass from cursor 0 over N rows that decode to samples plus one  *)
(* malformed row stores exactly N samples, reports exactly one rejection   *)
(* and leaves the cursor at N + 1.                                         *)
(***************************************************************************)
C6_OneBadRowAmongGood ==
    (/\ hist.op = "pass"
     /\ hist.from = 0
     /\ Len(hist.rows) >= 2
     /\ MalformedCount(hist.rows) = 1
     /\ SampleCount(hist.rows) = Len(hist.rows) - 1)
        => /\ hist.stored = Len(hist.rows) - 1
           /\ Len(hist.report) = 1
           /\ last_processed = Len(hist.rows)

(***************************************************************************)
(* C7 -- a failed read changes neither the cursor nor the store, and the   *)
(* next successful pass processes exactly the rows from the held cursor    *)
(* on.                                                                     *)
(***************************************************************************)
C7_FailedReadHoldsCursor ==
    [][/\ ReadFail => UNCHANGED <<last_processed, data_dict, times>>
       /\ (hist.op = "fail" /\ Pass)
              => hist'.visited = SubSeq(file, hist.from + 1, Len(file))]_vars

\* A pass that followed a failed read and processed rows from a cursor
\* the failure had held above 0.
C7_Witness ==
    /\ hist.op = "pass" /\ hist.prev = "fail"
    /\ hist.from > 0 /\ hist.visited # <<>>
    /\ DOMAIN data_dict # {}

(***************************************************************************)
(* C8 -- a pass over a row list whose length equals the cursor changes     *)
(* neither the channel buffers, the channel set, the timestamp list nor    *)
(* the cursor.                                                             *)
(***************************************************************************)
C8_NoNewRowsNoOp ==
    [][(Len(file) = last_processed /\ Pass)
          => UNCHANGED <<data_dict, times, last_processed>>]_vars

\* A pass over a non-empty list with no new rows has happened, the store
\* holding samples.
C8_Witness ==
    /\ hist.op = "pass" /\ hist.from = Len(hist.rows) /\ hist.rows # <<>>
    /\ hist.visited = <<>>
    /\ DOMAIN data_dict # {} /\ times # <<>>

(***************************************************************************)
(* C9 -- as claimed: the cursor never decreases, whatever lists the reader *)
(* supplies, and after a pass it does not exceed the length of the list    *)
(* supplied.                                                               *)
(***************************************************************************)
C9_CursorNeverDecreases ==
    [][/\ last_processed' >= last_processed
       /\ Pass => last_processed' <= Len(file)]_vars

(***************************************************************************)
(* C9, amended -- after each pass the cursor equals the length of the list *)
(* supplied to it (so never exceeds it); a failed read leaves it; and it   *)
(* decreases only in a pass whose list is shorter than the cursor.         *)
(***************************************************************************)
C9_CursorFollowsList ==
    [][/\ Pass => last_processed' = Len(file)
       /\ ReadFail => last_processed' = last_processed
       /\ last_processed' < last_processed
              => Pass /\ Len(file) < last_processed]_vars

\* A pass was given a list shorter than the cursor, and lowered the cursor.
C9_Witness ==
    /\ hist.op = "pass" /\ Len(hist.rows) < hist.from
    /\ last_processed = Len(hist.rows)

(***************************************************************************)
(* C10 -- with a pass and a display tick interleaved, the display never    *)
(* gives a line position and timestamp series of different lengths.        *)
(* Stated for the stores all of whose positions come from rows with a      *)
(* base-16 timestamp, so that the violation shown is not the one of C1.    *)
(***************************************************************************)
C10_NoTornRead ==
    AllOriginsTimed =>
        \A c \in DOMAIN lines : Len(lines[c].x) = Len(lines[c].y)

(***************************************************************************)
(* Vocabulary of the properties about single rows                          *)
(***************************************************************************)
\* Row k has at least 10 columns and a '|' in its data column.
HasPayload(k) ==
    /\ Len(WideCatalogue[k]) >= MinFields
    /\ Contains(WideCatalogue[k][10], "|")

\* The byte tokens the handler takes from the data column of row k.
Tokens(k) == DataHex(WideCatalogue[k][10])

\* Row k passes the structural checks: at least 10 columns, the separator,
\* 8 tokens, each of them accepted by int(x, 16).
PassesStructure(k) ==
    /\ HasPayload(k)
    /\ Len(Tokens(k)) = FrameBytes
    /\ \A i \in 1..Len(Tokens(k)) : IntBase16(Tokens(k)[i]).ok

\* The value of token i of row k.
ByteOf(k, i) == IntBase16(Tokens(k)[i]).val

(***************************************************************************)
(* C11 -- a pass over exactly one row that passes the structural checks    *)
(* and whose payload byte 0 is not 0x01 stores no sample and reports no    *)
(* rejection, whatever its channel-id and timestamp columns hold.          *)
(* The code parses the channel id (line 65) before it looks at byte 0      *)
(* (line 66).                                                              *)
(***************************************************************************)
OtherTagRows ==
    {k \in WideRowIds : PassesStructure(k) /\ ByteOf(k, 1) # MotorReplyTag}

C11_OtherTagSilent ==
    [][\A k \in OtherTagRows :
          (Unread = <<k>> /\ Pass)
              => /\ UNCHANGED <<data_dict, times>>
                 /\ hist'.stored = 0
                 /\ hist'.report = <<>>]_vars

(***************************************************************************)
(* C12 -- a pass over exactly one row with 8 payload tokens one of which   *)
(* is not an unsigned byte in 0..255 reports the row as a bad byte and     *)
(* stores no sample; and whenever a pass over one row stores a sample, the *)
(* raw value (byte 1 << 8) | byte 2 of that row lies in 0..65535.          *)
(* int(x, 16) accepts any base-16 integer, signed or wider than a byte,    *)
(* and the code does not check its range.                                  *)
(***************************************************************************)
IsByte(tok) == IntBase16(tok).ok /\ IntBase16(tok).val \in 0..255

NotByteRows ==
    {k \in WideRowIds :
        /\ HasPayload(k)
        /\ Len(Tokens(k)) = FrameBytes
        /\ \E i \in 1..Len(Tokens(k)) : ~IsByte(Tokens(k)[i])}

\* (byte 1 << 8) | byte 2 of the rows whose tokens int(x, 16) accepts
RawOf == [k \in {j \in WideRowIds : PassesStructure(j)} |->
             BitOr(ShiftLeft(ByteOf(k, 2), 8), ByteOf(k, 3))]

C12_NonByteTokenRejected ==
    [][\A k \in WideRowIds :
          (Unread = <<k>> /\ Pass)
              => /\ k \in NotByteRows
                     => /\ UNCHANGED <<data_dict, times>>
                        /\ hist'.stored = 0
                        /\ hist'.report = <<"parse_error">>
                 /\ hist'.stored > 0 => RawOf[k] \in 0..RawMax]_vars

(***************************************************************************)
(* C13 -- a pass over exactly one row with fewer than 10 columns (6 or 9)  *)
(* reports the row as too short, stores no sample and leaves the store     *)
(* unchanged; for a row of 10 or more columns the payload is column 9: the *)
(* row is reported for a missing separator exactly when column 9 has none, *)
(* and a position it stores is the one the bytes of column 9 encode.       *)
(***************************************************************************)
ShortRows == {k \in WideRowIds : Len(WideCatalogue[k]) < MinFields}

\* The position encoded by the byte tokens of a data column.
PositionIn(field) ==
    parse_position([i \in 1..Len(DataHex(field)) |->
                       IntBase16(DataHex(field)[i]).val]).val

Column9Position ==
    [k \in {j \in WideRowIds : PassesStructure(j)} |->
        PositionIn(WideCatalogue[k][10])]

Column9HasSeparator ==
    {k \in WideRowIds \ ShortRows : Contains(WideCatalogue[k][10], "|")}

ProperPos(p) == p.frac \in 0..(PosDen - 1)
PosLeq(p, q) == p.whole < q.whole \/ (p.whole = q.whole /\ p.frac <= q.frac)

C14_DequantizeMonotone ==
    quant.done =>
        /\ ProperPos(quant.pos1) /\ ProperPos(quant.pos2)
        /\ quant.raw1 = 0 => quant.pos1 = [whole |-> PosMin, frac |-> 0]
        /\ quant.raw2 = RawMax => quant.pos2 = [whole |-> PosMax, frac |-> 0]
        /\ quant.raw1 <= quant.raw2 => PosLeq(quant.pos1, quant.pos2)

\* Both endpoints were de-quantised in one application, and they differ.
C14_Witness ==
    /\ quant.done
    /\ quant.raw1 = 0 /\ quant.raw2 = RawMax
    /\ quant.pos1 # quant.pos2

(***************************************************************************)
(* C15 -- for a log that only grows, passes are transparent: whatever      *)
(* passes, no-op triggers and failed reads came before, after a pass the   *)
(* channel buffers, the timestamp list and the cursor are those of one     *)
(* pass over the full list from a fresh start; and a pass decodes exactly  *)
(* the rows behind the cursor, which no earlier pass has reached (the      *)
(* cursor is the number of rows decoded so far and never exceeds the       *)
(* list).                                                                  *)
(***************************************************************************)
FreshRun ==
    [data_dict |-> <<>>, times |-> <<>>, origin |-> <<>>, ideal |-> <<>>,
     report |-> <<>>, stored |-> 0]

RejectedEarly(k) ==
    Decoded[k].kind \in {"bad_format", "bad_byte_count", "parse_error"}

NotRejectedEarly(k) == ~RejectedEarly(k)

C16_RejectedRowNoEffect ==
    [][Pass =>
          \E rest \in {SelectSeq(Unread, NotRejectedEarly)} :
          \E st \in {IngestRows([data_dict |-> data_dict, times |-> times,
                                  origin |-> origin, ideal |-> ideal,
                                  report |-> <<>>, stored |-> 0], rest)} :
             /\ data_dict' = st.data_dict
             /\ times' = st.times
             /\ hist'.stored = st.stored
             /\ Len(hist'.report)
                    = Len(st.report) + Len(Unread) - Len(rest)]_vars

\* A pass over a rejected row followed by a sample row, behind rows
\* ingested earlier: one report, and the sample behind the rejected row
\* was stored.
C16_Witness ==
    /\ hist.op = "pass" /\ hist.from > 0
    /\ Len(hist.visited) = 2
    /\ RejectedEarly(hist.visited[1])
    /\ IsSampleRow(hist.visited[2])
    /\ hist.stored = 1 /\ Len(hist.report) = 1
    /\ DOMAIN data_dict # {}

(***************************************************************************)
(* C17 -- the payload that is tokenised is everything behind the first '|' *)
(* of the data column: a pass over exactly one row whose data column has a *)
(* second '|' stores a sample only if that whole remainder is exactly 8    *)
(* tokens that are base-16 numbers.                                        *)
(* The code tokenises data_str.split('|')[1], the piece between the first  *)
(* and the second '|'.                                                     *)
(***************************************************************************)
\* The text behind the first occurrence of sep in s.
AfterFirst(s, sep) ==
    LET i == CHOOSE j \in 1..Len(s) :
                 s[j] = sep /\ \A m \in 1..(j - 1) : s[m] # sep
    IN SubSeq(s, i + 1, Len(s))

TwoSeparatorRows ==
    {k \in WideRowIds :
        HasPayload(k) /\ Len(SplitOn(WideCatalogue[k][10], "|")) > 2}

RemainderTokens ==
    [k \in TwoSeparatorRows |->
        SplitWS(Strip(AfterFirst(WideCatalogue[k][10], "|")))]

RemainderValid ==
    {k \in TwoSeparatorRows :
        /\ Len(RemainderTokens[k]) = FrameBytes
        /\ \A i \in 1..Len(RemainderTokens[k]) :
               IntBase16(RemainderTokens[k][i]).ok}

C17_WholeRemainderTokenised ==
    [][\A k \in TwoSeparatorRows :
          (Unread = <<k>> /\ Pass /\ hist'.stored > 0)
              => k \in RemainderValid]_vars

(***************************************************************************)
(* C18 -- the display follows a growing channel set: a channel registered  *)
(* while the display already has lines for earlier channels eventually     *)
(* gets a line of its own.  Checked under SpecThreadsFair, where animate   *)
(* keeps being called and both threads keep running.                       *)
(* animate creates lines only while it has none (if not lines, line 86).   *)
(***************************************************************************)
ChannelIds == {Decoded[k].can_id : k \in {j \in RowIds : IsSampleRow(j)}}

C18_LateChannelGetsLine ==
    \A c \in ChannelIds :
        (c \in DOMAIN data_dict /\ DOMAIN lines # {} /\ c \notin DOMAIN lines)
            ~> (c \in DOMAIN lines)

(***************************************************************************)
(* C19 -- at every pass boundary the timestamp list is as long as all the  *)
(* channel buffers together.  (Every state of Spec is a pass boundary.)    *)
(* A row whose timestamp column is not base-16 leaves its position in the  *)
(* buffer without a timestamp (C1).                                        *)
(***************************************************************************)
RECURSIVE SumLen(_, _)
SumLen(dd, cs) ==
    IF cs = {} THEN 0
    ELSE LET c == CHOOSE x \in cs : TRUE
         IN Len(dd[c]) + SumLen(dd, cs \ {c})

C19_TimesMatchBuffers ==
    Len(times) = SumLen(data_dict, DOMAIN data_dict)

(***************************************************************************)
(* C20 -- after any passes over any rows, every position in every channel  *)
(* buffer lies in the closed interval [PosMin, PosMax].                    *)
(* A byte token outside 0..255 is accepted (C12) and gives a raw value     *)
(* outside 0..65535.                                                       *)
(***************************************************************************)
PosWithin(p) ==
    /\ PosLeq([whole |-> PosMin, frac |-> 0], p)
    /\ PosLeq(p, [whole |-> PosMax, frac |-> 0])

C20_PositionsInRange ==
    \A c \in DOMAIN data_dict :
        \A i \in 1..Len(data_dict[c]) : PosWithin(data_dict[c][i])

====
